---- MODULE Spec2Model ----
(***************************************************************************)
(* Model of run_scraper.py: the CapSolver client (solve_captcha), the      *)
(* challenge handler (handle_captcha) and the batch loop (scrape_site).    *)
(*                                                                         *)
(* Two specifications are given.  SolveSpec runs solve_captcha alone, one  *)
(* provider request per step, for every argument combination.  Spec runs   *)
(* scrape_site over a list of show names, with handle_captcha stepped      *)
(* through its statements.                                                 *)
(***************************************************************************)
EXTENDS Integers, Sequences, FiniteSets, TLC

\* ------------------------------------------------------------------------
\* Program constants
\* ------------------------------------------------------------------------
max_retries == 3
max_attempts == 45
MinTokenLen == 50

\* ------------------------------------------------------------------------
\* Bounds of the model
\* ------------------------------------------------------------------------
MaxNames == 2
MaxUrls == 1

\* ------------------------------------------------------------------------
\* Python values
\* ------------------------------------------------------------------------
None == "<None>"

\* Truthiness of a str-or-None value (None and "" are falsy).
Truthy(s) == s # None /\ s # ""

\* JSON values found in a provider solution: strings of a given length,
\* numbers and null.
StrVal(name, n) == [t |-> "str", len |-> n, v |-> name]
NumVal == [t |-> "num", len |-> 0, v |-> "7"]
NullVal == [t |-> "null", len |-> 0, v |-> None]

TruthyVal(x) == (x.t = "str" /\ x.len > 0) \/ x.t = "num"

\* ------------------------------------------------------------------------
\* solve_captcha: arguments
\* ------------------------------------------------------------------------
Names == {"n1", "n2"}

\* A URL: the search page of a show name, or the j-th show page it lists.
Url(kind, name, j) == [kind |-> kind, name |-> name, j |-> j]
NoUrl == Url("none", None, 0)
SearchUrl(name) == Url("search", name, 0)
ShowUrl(name, j) == Url("show", name, j)
Urls == {SearchUrl("n1"), ShowUrl("n1", 1)}
SiteKeys == {None, "", "0xKEY"}
CaptchaTypes == {None, "recaptcha", "turnstile", "Turnstile",
                 "cloudflare_challenge", "anti_turnstile", "auto"}

\* (captcha_type or "recaptcha").lower()
Normalize(ct) ==
    IF ct = None \/ ct = "" THEN "recaptcha"
    ELSE IF ct = "Turnstile" THEN "turnstile"
    ELSE ct

NoTask == [type |-> "<raise>"]

\* The chain with the Turnstile branch building the keyless task.
ChooseTaskKeyless(url, key, ct) ==
    IF Normalize(ct) = "recaptcha" /\ Truthy(key)
    THEN [type |-> "NoCaptchaTaskProxyless", websiteURL |-> url, websiteKey |-> key]
    ELSE IF Normalize(ct) = "turnstile" /\ Truthy(key)
    THEN [type |-> "AntiCloudflareTaskProxyLess", websiteURL |-> url]
    ELSE IF Normalize(ct) = "cloudflare_challenge"
    THEN [type |-> "AntiCloudflareTaskProxyLess", websiteURL |-> url]
    ELSE NoTask

\* The chain with a final branch that builds the keyless task instead of
\* raising.
ChooseTaskLenient(url, key, ct) ==
    IF Normalize(ct) = "recaptcha" /\ Truthy(key)
    THEN [type |-> "NoCaptchaTaskProxyless", websiteURL |-> url, websiteKey |-> key]
    ELSE IF Normalize(ct) = "turnstile" /\ Truthy(key)
    THEN [type |-> "AntiTurnstileTaskProxyLess", websiteURL |-> url, websiteKey |-> key]
    ELSE [type |-> "AntiCloudflareTaskProxyLess", websiteURL |-> url]

\* The if/elif chain that builds the task descriptor; NoTask stands for the
\* two branches that raise before any request.
ChooseTask(url, key, ct) ==
    IF Normalize(ct) = "recaptcha" /\ Truthy(key)
    THEN [type |-> "NoCaptchaTaskProxyless", websiteURL |-> url, websiteKey |-> key]
    ELSE IF Normalize(ct) = "turnstile" /\ Truthy(key)
    THEN [type |-> "AntiTurnstileTaskProxyLess", websiteURL |-> url, websiteKey |-> key]
    ELSE IF Normalize(ct) = "cloudflare_challenge"
    THEN [type |-> "AntiCloudflareTaskProxyLess", websiteURL |-> url]
    ELSE NoTask

\* ------------------------------------------------------------------------
\* solve_captcha: token extraction from a "ready" solution
\* ------------------------------------------------------------------------
\* A solution is a dict in insertion order: a sequence of [k, v] pairs.
Field(k, x) == [k |-> k, v |-> x]

Has(solution, k) == \E i \in 1..Len(solution) : solution[i].k = k

Get(solution, k) ==
    solution[CHOOSE i \in 1..Len(solution) : solution[i].k = k].v

IsLongStr(x) == x.t = "str" /\ x.len > MinTokenLen

RECURSIVE FirstLong(_)
FirstLong(solution) ==
    IF solution = <<>> THEN NullVal
    ELSE IF IsLongStr(Head(solution).v) THEN Head(solution).v
    ELSE FirstLong(Tail(solution))

\* The extraction with the "token" field accepted only when it is long.
ExtractTokenLongOnly(solution) ==
    IF Has(solution, "gRecaptchaResponse") THEN Get(solution, "gRecaptchaResponse")
    ELSE IF Has(solution, "token") /\ IsLongStr(Get(solution, "token"))
    THEN Get(solution, "token")
    ELSE IF Has(solution, "cfTurnstileResponse") THEN Get(solution, "cfTurnstileResponse")
    ELSE FirstLong(solution)

\* The extraction that skips a known field whose value is empty.
ExtractTokenFallback(solution) ==
    IF Has(solution, "gRecaptchaResponse") /\ TruthyVal(Get(solution, "gRecaptchaResponse"))
    THEN Get(solution, "gRecaptchaResponse")
    ELSE IF Has(solution, "token") /\ TruthyVal(Get(solution, "token"))
    THEN Get(solution, "token")
    ELSE IF Has(solution, "cfTurnstileResponse") /\ TruthyVal(Get(solution, "cfTurnstileResponse"))
    THEN Get(solution, "cfTurnstileResponse")
    ELSE FirstLong(solution)

ExtractToken(solution) ==
    IF Has(solution, "gRecaptchaResponse") THEN Get(solution, "gRecaptchaResponse")
    ELSE IF Has(solution, "token") THEN Get(solution, "token")
    ELSE IF Has(solution, "cfTurnstileResponse") THEN Get(solution, "cfTurnstileResponse")
    ELSE FirstLong(solution)

TokA == StrVal("A", 60)
TokB == StrVal("B", 60)
TokC == StrVal("C", 60)
TokShort == StrVal("s", 3)
EmptyStr == StrVal("", 0)

Solutions ==
    { <<>>,
      <<Field("token", TokB)>>,
      <<Field("gRecaptchaResponse", TokA)>>,
      <<Field("token", TokB), Field("gRecaptchaResponse", TokA)>>,
      <<Field("cfTurnstileResponse", TokC), Field("token", TokB)>>,
      <<Field("cfTurnstileResponse", TokC)>>,
      <<Field("token", TokShort), Field("other", TokA)>>,
      <<Field("token", NumVal)>>,
      <<Field("gRecaptchaResponse", EmptyStr), Field("token", TokB)>>,
      <<Field("token", NullVal), Field("other", TokA)>>,
      <<Field("n", NumVal), Field("short", TokShort), Field("other", TokA), Field("more", TokB)>>,
      <<Field("short", TokShort)>> }

\* ------------------------------------------------------------------------
\* State
\* ------------------------------------------------------------------------
VARIABLES
    \* solve_captcha
    sc_pc,          \* "idle", "start", "create", "poll", "returned", "raised"
    site_url,       \* argument site_url
    site_key,       \* argument site_key
    captcha_type,   \* argument captcha_type
    task,           \* the task descriptor built before the retry loop
    attempt_retry,  \* outer loop variable, 1..max_retries
    attempt,        \* inner loop variable, 0..max_attempts-1
    task_id,        \* taskId of the accepted submission being polled
    sent,           \* task descriptors posted to createTask, in order
    polls,          \* getTaskResult requests made, per task id
    failed,         \* task ids for which the provider reported a terminal error
    token,          \* value returned by solve_captcha
    err             \* why solve_captcha raised

solve_vars == <<sc_pc, site_url, site_key, captcha_type, task, attempt_retry,
                attempt, task_id, sent, polls, failed, token, err>>

\* ------------------------------------------------------------------------
\* Pages
\* ------------------------------------------------------------------------
\* What the driver reports of the loaded page: the marker words found in
\* page_source, the title, and the places a sitekey can sit in.
Page(markers, title, iframe_k, data_sitekey, source_key, script_key, window_key) ==
    [html |-> markers, title |-> title, iframe_k |-> iframe_k,
     data_sitekey |-> data_sitekey, source_key |-> source_key,
     script_key |-> script_key, window_key |-> window_key]

\* driver.title.lower()
Lower(title) ==
    IF title = "Just a moment..." THEN "just a moment..."
    ELSE IF title = "Just a moment" THEN "just a moment"
    ELSE title

\* phrase in title, for the two phrases the code looks for
TitleHas(title, phrase) ==
    IF phrase = "just a moment" THEN title \in {"just a moment...", "just a moment"}
    ELSE IF phrase = "just a moment..." THEN title = "just a moment..."
    ELSE FALSE

\* word in html; "g-recaptcha" holds the substring "recaptcha"
HtmlHas(html, word) ==
    IF word = "recaptcha" THEN "recaptcha" \in html \/ "g-recaptcha" \in html
    ELSE word \in html

\* The marker test with "or" between the frame word and the reCAPTCHA word.
HasCaptchaMarkersLoose(p) ==
    \/ HtmlHas(p.html, "iframe") \/ HtmlHas(p.html, "recaptcha")
    \/ HtmlHas(p.html, "g-recaptcha")
    \/ HtmlHas(p.html, "cf-challenge")
    \/ HtmlHas(p.html, "verifying")

\* The marker test of is_captcha_page (lines 199-202).
HasCaptchaMarkers(p) ==
    \/ HtmlHas(p.html, "iframe") /\ HtmlHas(p.html, "recaptcha")
    \/ HtmlHas(p.html, "g-recaptcha")
    \/ HtmlHas(p.html, "cf-challenge")
    \/ HtmlHas(p.html, "verifying")

\* The interstitial test of is_captcha_page (line 210).
IsInterstitial(p) == TitleHas(Lower(p.title), "just a moment")

\* Return value of is_captcha_page.
is_captcha_page(p) == HasCaptchaMarkers(p)

\* The five strategies of find_turnstile_sitekey, each yielding a key or None.
Heuristic(i, p) ==
    CASE i = 1 -> p.iframe_k
      [] i = 2 -> p.data_sitekey
      [] i = 3 -> p.source_key
      [] i = 4 -> p.script_key
      [] i = 5 -> IF Truthy(p.window_key) THEN p.window_key ELSE p.data_sitekey

NumHeuristics == 5

\* The scan that keeps the last hit instead of returning at the first.
RECURSIVE LastHit(_, _, _)
LastHit(i, p, raises) ==
    IF i > NumHeuristics THEN None
    ELSE IF Truthy(LastHit(i + 1, p, raises)) THEN LastHit(i + 1, p, raises)
    ELSE IF i \notin raises /\ Truthy(Heuristic(i, p)) THEN Heuristic(i, p)
    ELSE None

\* Strategies from i on, in order; a strategy in raises throws and is a miss.
RECURSIVE FirstHit(_, _, _)
FirstHit(i, p, raises) ==
    IF i > NumHeuristics THEN None
    ELSE IF i \notin raises /\ Truthy(Heuristic(i, p)) THEN Heuristic(i, p)
    ELSE FirstHit(i + 1, p, raises)

find_turnstile_sitekey(p, raises) == FirstHit(1, p, raises)

\* The strategies a call goes through before it returns.
RECURSIVE TriedFrom(_, _, _)
TriedFrom(i, p, raises) ==
    IF i > NumHeuristics THEN {}
    ELSE IF i \notin raises /\ Truthy(Heuristic(i, p)) THEN {i}
    ELSE {i} \cup TriedFrom(i + 1, p, raises)

Tried(p, raises) == TriedFrom(1, p, raises)

NoPage == Page({}, "about:blank", None, None, None, None, None)
PClean == Page({}, "Shows", None, None, None, None, None)
PSoft == Page({}, "Just a moment...", None, None, None, None, None)
PTurnstile == Page({"cf-challenge", "iframe"}, "Shows", "0xKEY", "0xKEY", "0xKEY", None, None)
PManaged == Page({"cf-challenge", "verifying"}, "Just a moment...", None, None, None, None, None)
PManagedKey == Page({"verifying"}, "Just a moment...", None, None, "0xFALSE", None, None)
PNoKey == Page({"cf-challenge"}, "Just a moment", None, None, None, None, None)
PRecaptcha == Page({"iframe", "g-recaptcha"}, "Shows", None, "6LKEY", None, None, None)

PIframe == Page({"iframe"}, "Shows", None, None, None, None, None)
PWord == Page({"recaptcha"}, "Shows", None, None, None, None, None)

\* Pages a search URL can load.
SearchPages == {PClean, PSoft, PTurnstile, PManaged, PManagedKey, PNoKey,
                PRecaptcha, PIframe, PWord}

\* Pages for a stand-alone call of find_turnstile_sitekey: every place holds
\* no key, an empty value, or a key of its own.
LocatePages ==
    {Page({}, "Shows", k1, k2, k3, k4, k5) :
        k1 \in {None, "", "key1"}, k2 \in {None, "", "key2"},
        k3 \in {None, "key3"}, k4 \in {None, "key4"},
        k5 \in {None, "", "key5"}}

\* Pages a show URL can load.
ShowPages == {PClean, PManaged}

\* Pages that can be there once the challenge scripts have settled.
SettledPages == {PClean, PManaged, PTurnstile}

\* ------------------------------------------------------------------------
\* State of scrape_site and handle_captcha
\* ------------------------------------------------------------------------
VARIABLES
    pc,           \* position in scrape_site
    short_names,  \* result of get_short_names()
    idx,          \* index in short_names of the name of the current iteration
    page,         \* the page the driver holds
    cur_url,      \* driver.current_url
    num_urls,     \* length of the list returned by get_show_urls
    u,            \* index of the show URL of the current inner iteration
    all_shows_to_update,
    visited,      \* names for which the loop body was entered, in order
    cur_failed,   \* the current name met an unsolved challenge or an exception
    late_scrape,  \* a show URL was loaded for a name after it had failed
    updates,      \* argument lists of the calls of update_appsheet_batch
    quits,        \* number of calls of driver.quit
    exc,          \* scrape_site ends by raising
    \* handle_captcha
    h_pc,         \* "idle", "start", "solve", "inject", "after_inject",
                  \* "except", "returned", "raised"
    h_key,        \* local site_key
    h_type,       \* local captcha_type
    h_token,      \* local token
    h_result,     \* return value
    inject_raised, \* the injection script raised in this run
    injected,     \* value written into cf-turnstile-response
    inject_url    \* page the value was written into

scrape_vars == <<pc, short_names, idx, page, cur_url, num_urls, u,
                 all_shows_to_update, visited, cur_failed, late_scrape,
                 updates, quits, exc>>
handle_vars == <<h_pc, h_key, h_type, h_token, h_result, inject_raised,
                 injected, inject_url>>

VARIABLES
    ready_solution, \* solution of the "ready" answer solve_captcha last read
    tried,          \* strategies find_turnstile_sitekey attempted in its last call
    located,        \* value find_turnstile_sitekey returned in its last call
    loc_raises,     \* strategies that raised in a stand-alone call of it
    h_ops,          \* what handle_captcha has done to the page in this run, in order
    debug_written,  \* suffix of the artifacts written by the last step, or "none"
    last_show       \* what the last show page gave, in a stand-alone inner loop

locate_vars == <<tried, located, loc_raises>>

vars == <<solve_vars, scrape_vars, handle_vars, ready_solution, locate_vars,
          h_ops, debug_written, last_show>>

\* ------------------------------------------------------------------------
\* solve_captcha, one provider request per step
\* ------------------------------------------------------------------------
TaskIds == 1..max_retries

\* The provider numbers the tasks it accepts; every accepted submission gets
\* an id of its own.
FreshTaskId == Len(sent) + 1

CreateResponses == {"transport", "malformed", "error", "no_task_id", "accepted"}
PollStatuses == {"transport", "malformed", "processing", "failed", "ready"}

\* The retry test with the bound one too low.
MayRetryShort(a) == a < max_retries - 1

\* if attempt_retry < max_retries: ... continue
MayRetry(a) == a < max_retries

\* The polling loop running one iteration too many.
BudgetLeftLong(a) == a < max_attempts

\* for attempt in range(max_attempts): another iteration follows this one
BudgetLeft(a) == a + 1 < max_attempts

\* A timeout that goes back to polling the same task.
TimeoutTargetRepoll == "poll"

\* "continue" after the polling loop timed out (line 437): the next iteration
\* of the outer loop posts createTask again
TimeoutTarget == "create"

SolveIdle ==
    /\ sc_pc = "idle" /\ site_url = NoUrl /\ site_key = None
    /\ captcha_type = None /\ task = NoTask /\ attempt_retry = 1
    /\ attempt = 0 /\ task_id = 0 /\ sent = <<>>
    /\ polls = [i \in TaskIds |-> 0] /\ failed = {}
    /\ token = NullVal /\ err = None

\* Lines 325-362: normalise the type and build the task, or raise.
SolveStart ==
    /\ sc_pc = "start"
    /\ task' = ChooseTask(site_url, site_key, captcha_type)
    /\ IF task' = NoTask
       THEN sc_pc' = "raised" /\ err' = "fail_fast"
       ELSE sc_pc' = "create" /\ err' = err
    /\ UNCHANGED <<site_url, site_key, captcha_type, attempt_retry, attempt,
                   task_id, sent, polls, failed, token>>
    /\ UNCHANGED <<scrape_vars, handle_vars>>
    /\ UNCHANGED <<last_show, ready_solution, locate_vars, h_ops, debug_written>>

\* A failed submission: retry while attempts remain, else raise.
RetryOrRaise(reason, target) ==
    IF MayRetry(attempt_retry)
    THEN /\ attempt_retry' = attempt_retry + 1
         /\ sc_pc' = target
         /\ err' = err
    ELSE /\ attempt_retry' = attempt_retry
         /\ sc_pc' = "raised"
         /\ err' = reason

\* Lines 366-392: one createTask submission and the handling of its answer.
CreateTask(resp) ==
    /\ sc_pc = "create"
    /\ sent' = Append(sent, task)
    /\ CASE resp = "transport" ->
              RetryOrRaise("transport", "create") /\ UNCHANGED <<task_id, attempt>>
         [] resp = "malformed" ->
              /\ sc_pc' = "raised" /\ err' = "malformed"
              /\ UNCHANGED <<attempt_retry, task_id, attempt>>
         [] resp = "error" ->
              RetryOrRaise("create_error", "create") /\ UNCHANGED <<task_id, attempt>>
         [] resp = "no_task_id" ->
              RetryOrRaise("no_task_id", "create") /\ UNCHANGED <<task_id, attempt>>
         [] resp = "accepted" ->
              /\ task_id' = FreshTaskId
              /\ attempt' = 0
              /\ sc_pc' = "poll"
              /\ UNCHANGED <<attempt_retry, err>>
    /\ UNCHANGED <<site_url, site_key, captcha_type, task, polls, failed, token>>
    /\ UNCHANGED <<scrape_vars, handle_vars>>
    /\ UNCHANGED <<last_show, ready_solution, locate_vars, h_ops, debug_written>>

\* Lines 396-438: one getTaskResult request and the handling of its answer,
\* the code after the polling loop included.
Poll(status, solution) ==
    /\ sc_pc = "poll"
    /\ polls' = [polls EXCEPT ![task_id] = @ + 1]
    /\ failed' = IF status = "failed" THEN failed \cup {task_id} ELSE failed
    /\ CASE status = "malformed" ->
              /\ sc_pc' = "raised" /\ err' = "malformed"
              /\ UNCHANGED <<attempt_retry, attempt, token>>
         [] status = "ready" ->
              /\ IF TruthyVal(ExtractToken(solution))
                 THEN /\ token' = ExtractToken(solution)
                      /\ sc_pc' = "returned"
                      /\ err' = err
                 ELSE /\ token' = token
                      /\ sc_pc' = "raised"
                      /\ err' = "no_token"
              /\ UNCHANGED <<attempt_retry, attempt>>
         [] status \in {"transport", "processing", "failed"} ->
              /\ token' = token
              /\ IF BudgetLeft(attempt)
                 THEN /\ attempt' = attempt + 1
                      /\ UNCHANGED <<attempt_retry, sc_pc, err>>
                 ELSE /\ attempt' = attempt
                      /\ RetryOrRaise("timeout", TimeoutTarget)
    /\ UNCHANGED <<site_url, site_key, captcha_type, task, task_id, sent>>
    /\ UNCHANGED <<scrape_vars, handle_vars>>
    /\ ready_solution' = IF status = "ready" THEN solution ELSE ready_solution
    /\ UNCHANGED <<locate_vars, h_ops, debug_written, last_show>>

\* save_debug raises only when os.makedirs (line 137) does: the screenshot,
\* the HTML dump and the asset download each sit in a try/except of their own.
SaveDebugRaises(mkdir_fails, dump_fails) == mkdir_fails

\* save_debug leaves artifacts when the directory exists and a dump works.
SaveDebugWrites(mkdir_fails, dump_fails) == ~mkdir_fails /\ ~dump_fails

\* No show page was loaded yet.
NoShow == [name |-> FALSE, dated |-> FALSE, area_raises |-> FALSE,
           count_raises |-> FALSE, found |-> 0]

\* No "ready" answer was read yet.
NoAnswer == <<Field("<none>", NullVal)>>

ObserversIdle ==
    /\ ready_solution = NoAnswer /\ tried = {} /\ located = None
    /\ loc_raises = {} /\ h_ops = <<>> /\ debug_written = "none"
    /\ last_show = NoShow

HandleIdle ==
    /\ h_pc = "idle" /\ h_key = None /\ h_type = None /\ h_token = NullVal
    /\ h_result = FALSE /\ inject_raised = FALSE
    /\ injected = NullVal /\ inject_url = NoUrl

\* Tokens solve_captcha can return.
SolveReturns == {ExtractToken(s) : s \in {x \in Solutions : TruthyVal(ExtractToken(x))}}

\* token[:40] works on strings only
Sliceable(x) == x.t = "str"

\* ------------------------------------------------------------------------
\* handle_captcha
\* ------------------------------------------------------------------------
\* The branch with the keyed kind chosen also when no key was located.
ChooseKindStrict(title, key) ==
    IF TitleHas(title, "just a moment...")
    THEN [captcha_type |-> "cloudflare_challenge", site_key |-> None]
    ELSE [captcha_type |-> "turnstile", site_key |-> key]

\* The branch with the located key kept under the full-page title.
ChooseKindKeepsKey(title, key) ==
    IF TitleHas(title, "just a moment...")
    THEN [captcha_type |-> "cloudflare_challenge", site_key |-> key]
    ELSE IF Truthy(key)
    THEN [captcha_type |-> "turnstile", site_key |-> key]
    ELSE [captcha_type |-> "cloudflare_challenge", site_key |-> key]

\* The branch on the title and the located key (lines 469-482): the kind and
\* the key passed on to solve_captcha.
ChooseKind(title, key) ==
    IF TitleHas(title, "just a moment...")
    THEN [captcha_type |-> "cloudflare_challenge", site_key |-> None]
    ELSE IF Truthy(key)
    THEN [captcha_type |-> "turnstile", site_key |-> key]
    ELSE [captcha_type |-> "cloudflare_challenge", site_key |-> key]

\* Lines 448-482: read the URL, wait for the widget (a timeout is ignored),
\* locate the sitekey, read the title and choose the kind.
HandlePrepare(is_captcha, raises, driver_raises) ==
    /\ pc = "handle" /\ h_pc = "start"
    /\ IF ~is_captcha
       THEN /\ h_pc' = "returned" /\ h_result' = FALSE
            /\ UNCHANGED <<h_key, h_type, site_url, tried, located, h_ops>>
       ELSE IF driver_raises
       THEN /\ h_pc' = "except"
            /\ h_ops' = <<"current_url">>
            /\ UNCHANGED <<h_key, h_type, h_result, site_url, tried, located>>
       ELSE /\ site_url' = cur_url
            /\ tried' = Tried(page, raises)
            /\ located' = find_turnstile_sitekey(page, raises)
            /\ h_key' = ChooseKind(Lower(page.title),
                                   find_turnstile_sitekey(page, raises)).site_key
            /\ h_type' = ChooseKind(Lower(page.title),
                                    find_turnstile_sitekey(page, raises)).captcha_type
            /\ h_ops' = <<"current_url", "wait", "locate", "title">>
            /\ h_pc' = "solve"
            /\ UNCHANGED h_result
    /\ debug_written' = "none"
    /\ UNCHANGED <<h_token, inject_raised, injected, inject_url, scrape_vars>>
    /\ UNCHANGED <<sc_pc, site_key, captcha_type, task, attempt_retry, attempt,
                   task_id, sent, polls, failed, token, err>>
    /\ UNCHANGED <<last_show, ready_solution, loc_raises>>

\* Lines 485-486: the call of solve_captcha, taken as one step: it raises
\* before any request when no task fits, and else returns a token or raises,
\* as the provider decides (SolveSpec steps through the requests).
HandleSolve(returns, tok) ==
    /\ pc = "handle" /\ h_pc = "solve"
    /\ site_key' = h_key
    /\ captcha_type' = h_type
    /\ task' = ChooseTask(site_url, h_key, h_type)
    /\ IF task' # NoTask /\ returns
       THEN /\ sc_pc' = "returned" /\ token' = tok /\ err' = None
            /\ h_token' = tok
            /\ h_pc' = IF Sliceable(tok) THEN "inject" ELSE "except"
       ELSE /\ sc_pc' = "raised" /\ token' = NullVal
            /\ err' = IF task' = NoTask THEN "fail_fast" ELSE "provider"
            /\ h_token' = h_token
            /\ h_pc' = "except"
    /\ UNCHANGED <<h_key, h_type, h_result, inject_raised, injected, inject_url,
                   scrape_vars>>
    /\ UNCHANGED <<site_url, attempt_retry, attempt, task_id, sent, polls, failed>>
    /\ h_ops' = Append(h_ops, "solve")
    /\ debug_written' = "none"
    /\ UNCHANGED <<last_show, ready_solution, locate_vars>>

\* The injection running a second time before the function goes on.
HandleInjectTwice(script_raises) ==
    /\ pc = "handle" /\ h_pc = "inject"
    /\ IF script_raises
       THEN UNCHANGED <<injected, inject_url>>
       ELSE injected' = h_token /\ inject_url' = cur_url
    /\ inject_raised' = script_raises
    /\ h_pc' = IF \E i \in 1..Len(h_ops) : h_ops[i] = "inject"
              THEN "after_inject" ELSE "inject"
    /\ UNCHANGED <<h_key, h_type, h_token, h_result, scrape_vars, solve_vars>>
    /\ h_ops' = Append(h_ops, "inject")
    /\ debug_written' = "none"
    /\ UNCHANGED <<last_show, ready_solution, locate_vars>>

\* Lines 489-507: the injection script; an exception is printed and dropped.
HandleInject(script_raises) ==
    /\ pc = "handle" /\ h_pc = "inject"
    /\ IF script_raises
       THEN UNCHANGED <<injected, inject_url>>
       ELSE injected' = h_token /\ inject_url' = cur_url
    /\ inject_raised' = script_raises
    /\ h_pc' = "after_inject"
    /\ UNCHANGED <<h_key, h_type, h_token, h_result, scrape_vars, solve_vars>>
    /\ h_ops' = Append(h_ops, "inject")
    /\ debug_written' = "none"
    /\ UNCHANGED <<last_show, ready_solution, locate_vars>>

\* Lines 509-511: save_debug, the 5 s sleep, return True.  The page may have
\* changed by the time the function returns.
HandleAfterInject(mkdir_fails, dump_fails, p) ==
    /\ pc = "handle" /\ h_pc = "after_inject"
    /\ IF SaveDebugRaises(mkdir_fails, dump_fails)
       THEN h_pc' = "except" /\ UNCHANGED <<h_result, page>>
       ELSE h_pc' = "returned" /\ h_result' = TRUE /\ page' = p
    /\ UNCHANGED <<h_key, h_type, h_token, inject_raised, injected, inject_url,
                   solve_vars>>
    /\ UNCHANGED <<pc, short_names, idx, cur_url, num_urls, u,
                   all_shows_to_update, visited, cur_failed, late_scrape,
                   updates, quits, exc>>
    /\ h_ops' = Append(h_ops, "save_debug")
    /\ debug_written' = IF SaveDebugWrites(mkdir_fails, dump_fails)
                        THEN "after_inject" ELSE "none"
    /\ UNCHANGED <<last_show, ready_solution, locate_vars>>

\* Lines 513-516: the handler of the outer try.
HandleExcept(mkdir_fails, dump_fails) ==
    /\ pc = "handle" /\ h_pc = "except"
    /\ IF SaveDebugRaises(mkdir_fails, dump_fails)
       THEN h_pc' = "raised" /\ UNCHANGED h_result
       ELSE h_pc' = "returned" /\ h_result' = FALSE
    /\ UNCHANGED <<h_key, h_type, h_token, inject_raised, injected, inject_url,
                   scrape_vars, solve_vars>>
    /\ h_ops' = Append(h_ops, "save_debug")
    /\ debug_written' = IF SaveDebugWrites(mkdir_fails, dump_fails)
                        THEN "captcha_fail" ELSE "none"
    /\ UNCHANGED <<last_show, ready_solution, locate_vars>>

\* ------------------------------------------------------------------------
\* scrape_site
\* ------------------------------------------------------------------------
\* The i-th name of the list get_short_names returns; the names are opaque to
\* scrape_site, and a list may hold a name twice.
NameAt(i) == IF i % 2 = 1 THEN "n1" ELSE "n2"

\* The lists get_short_names can return: one list of every length.
NameLists == {[i \in 1..n |-> NameAt(i)] : n \in 0..MaxNames}

\* Seat counts count_empty_seats can return: 0 also when the wait fails.
SeatCounts == {0, 3}

\* available_seats = None
NoneSeats == -1

Show(url, seats) == [url |-> url, available_seats |-> seats]

\* count_empty_seats (lines 643-654): the number of empty seats found, or 0
\* when the wait or the query raises.
count_empty_seats(found, raises) == IF raises THEN 0 ELSE found

\* Lines 754-761: the next name of the list, and driver.get(search_url).
NextName(p, get_raises) ==
    /\ pc = "loop" /\ idx <= Len(short_names)
    /\ visited' = Append(visited, short_names[idx])
    /\ cur_failed' = get_raises
    /\ IF get_raises
       THEN pc' = "except" /\ UNCHANGED <<page, cur_url>>
       ELSE pc' = "detect" /\ page' = p /\ cur_url' = SearchUrl(short_names[idx])
    /\ injected' = IF get_raises THEN injected ELSE NullVal
    /\ inject_url' = IF get_raises THEN inject_url ELSE NoUrl
    /\ UNCHANGED <<short_names, idx, num_urls, u, all_shows_to_update,
                   late_scrape, updates, quits, exc, h_pc, h_key, h_type,
                   h_token, h_result, inject_raised, solve_vars>>
    /\ debug_written' = "none"
    /\ UNCHANGED <<last_show, ready_solution, locate_vars, h_ops>>

\* Lines 764-771 with is_captcha_page (lines 194-216).
Detect(driver_raises, mkdir_fails, dump_fails) ==
    /\ pc = "detect"
    /\ IF driver_raises
       THEN pc' = "except" /\ cur_failed' = TRUE /\ UNCHANGED h_pc
       ELSE IF is_captcha_page(page)
       THEN pc' = "handle" /\ h_pc' = "start" /\ UNCHANGED cur_failed
       ELSE IF IsInterstitial(page) /\ SaveDebugRaises(mkdir_fails, dump_fails)
       THEN pc' = "except" /\ cur_failed' = TRUE /\ UNCHANGED h_pc
       ELSE pc' = "urls" /\ UNCHANGED <<cur_failed, h_pc>>
    /\ UNCHANGED <<short_names, idx, page, cur_url, num_urls, u,
                   all_shows_to_update, visited, late_scrape, updates, quits,
                   exc, h_key, h_type, h_token, h_result, inject_raised,
                   injected, inject_url, solve_vars>>
    /\ debug_written' =
           IF /\ ~driver_raises /\ ~is_captcha_page(page) /\ IsInterstitial(page)
              /\ SaveDebugWrites(mkdir_fails, dump_fails)
           THEN "cf_interstitial" ELSE "none"
    /\ UNCHANGED <<last_show, ready_solution, locate_vars, h_ops>>

\* Lines 766-769: handle_captcha has returned, or raised; its frame and that
\* of solve_captcha are gone.
HandleDone ==
    /\ pc = "handle" /\ h_pc \in {"returned", "raised"}
    /\ IF h_pc = "raised"
       THEN pc' = "except" /\ cur_failed' = TRUE /\ UNCHANGED idx
       ELSE IF h_result
       THEN pc' = "urls" /\ UNCHANGED <<cur_failed, idx>>
       ELSE pc' = "loop" /\ idx' = idx + 1 /\ cur_failed' = TRUE
    /\ h_pc' = "idle" /\ h_key' = None /\ h_type' = None
    /\ h_token' = NullVal /\ h_result' = FALSE /\ inject_raised' = FALSE
    /\ sc_pc' = "idle" /\ site_url' = NoUrl /\ site_key' = None
    /\ captcha_type' = None /\ task' = NoTask /\ token' = NullVal
    /\ err' = None
    /\ UNCHANGED <<short_names, page, cur_url, num_urls, u,
                   all_shows_to_update, visited, late_scrape, updates, quits,
                   exc, injected, inject_url, attempt_retry, attempt, task_id,
                   sent, polls, failed>>
    /\ tried' = {} /\ located' = None /\ h_ops' = <<>>
    /\ debug_written' = "none"
    /\ UNCHANGED <<last_show, ready_solution, loc_raises>>

\* Lines 773-777 with get_show_urls (lines 549-560): a TimeoutException gives
\* the empty list, any other exception reaches scrape_site.
GetUrls(n, timeout, driver_raises) ==
    /\ pc = "urls"
    /\ IF driver_raises
       THEN pc' = "except" /\ cur_failed' = TRUE /\ UNCHANGED <<num_urls, u>>
       ELSE /\ pc' = "show"
            /\ num_urls' = IF timeout THEN 0 ELSE n
            /\ u' = 1
            /\ UNCHANGED cur_failed
    /\ UNCHANGED <<short_names, idx, page, cur_url, all_shows_to_update,
                   visited, late_scrape, updates, quits, exc, handle_vars,
                   solve_vars>>
    /\ debug_written' = "none"
    /\ UNCHANGED <<last_show, ready_solution, locate_vars, h_ops>>

\* Lines 780-796: one show URL.  extract_show_details loads the URL and
\* swallows its own exceptions, so the record can hold a name and no date; a
\* show without a name is skipped; an exception of select_area is caught and
\* the show is not appended.  The print of line 792 reads show['date']: on a
\* record without a date it raises after the append, and the handler of
\* line 794 then sets available_seats of the appended record to None.
ShowBody(p, extracted, partial, area_raises, found, count_raises) ==
    /\ pc = "show" /\ u <= num_urls
    /\ page' = p
    /\ cur_url' = ShowUrl(short_names[idx], u)
    /\ late_scrape' = (late_scrape \/ cur_failed)
    /\ IF ~extracted
       THEN UNCHANGED <<all_shows_to_update, cur_failed>>
       ELSE IF area_raises
       THEN cur_failed' = TRUE /\ UNCHANGED all_shows_to_update
       ELSE /\ all_shows_to_update' =
                   Append(all_shows_to_update,
                          Show(ShowUrl(short_names[idx], u),
                               IF partial THEN NoneSeats
                               ELSE count_empty_seats(found, count_raises)))
            /\ cur_failed' = (cur_failed \/ partial)
    /\ u' = u + 1
    /\ injected' = NullVal /\ inject_url' = NoUrl
    /\ UNCHANGED <<pc, short_names, idx, num_urls, visited, updates, quits,
                   exc, h_pc, h_key, h_type, h_token, h_result, inject_raised,
                   solve_vars>>
    /\ debug_written' = "none"
    /\ UNCHANGED <<ready_solution, locate_vars, h_ops>>

\* One iteration of the inner loop inside scrape_site.
ShowStep(p, extracted, partial, area_raises, found, count_raises) ==
    /\ ShowBody(p, extracted, partial, area_raises, found, count_raises)
    /\ UNCHANGED last_show

\* One iteration of the inner loop, with what the show page gave on record.
ShowObserved(p, extracted, partial, area_raises, found, count_raises) ==
    /\ ShowBody(p, extracted, partial, area_raises, found, count_raises)
    /\ last_show' = [name |-> extracted, dated |-> ~partial,
                     area_raises |-> area_raises,
                     count_raises |-> count_raises, found |-> found]

\* The inner loop is over: on to the next name.
UrlsDone ==
    /\ pc = "show" /\ u > num_urls
    /\ pc' = "loop" /\ idx' = idx + 1
    /\ UNCHANGED <<short_names, page, cur_url, num_urls, u,
                   all_shows_to_update, visited, cur_failed, late_scrape,
                   updates, quits, exc, handle_vars, solve_vars>>
    /\ debug_written' = "none"
    /\ UNCHANGED <<last_show, ready_solution, locate_vars, h_ops>>

\* Lines 798-800: the handler of the per-name try; save_debug is called in it.
Except(mkdir_fails, dump_fails) ==
    /\ pc = "except"
    /\ IF SaveDebugRaises(mkdir_fails, dump_fails)
       THEN pc' = "finally" /\ exc' = TRUE /\ UNCHANGED idx
       ELSE pc' = "loop" /\ idx' = idx + 1 /\ UNCHANGED exc
    /\ UNCHANGED <<short_names, page, cur_url, num_urls, u,
                   all_shows_to_update, visited, cur_failed, late_scrape,
                   updates, quits, handle_vars, solve_vars>>
    /\ debug_written' = IF SaveDebugWrites(mkdir_fails, dump_fails)
                        THEN "error_loop" ELSE "none"
    /\ UNCHANGED <<last_show, ready_solution, locate_vars, h_ops>>

\* The batch update called whatever the list holds.
AfterLoopAlways(update_raises) ==
    /\ pc = "loop" /\ idx > Len(short_names)
    /\ updates' = Append(updates, all_shows_to_update) /\ exc' = update_raises
    /\ pc' = "finally"
    /\ UNCHANGED <<short_names, idx, page, cur_url, num_urls, u,
                   all_shows_to_update, visited, cur_failed, late_scrape,
                   quits, handle_vars, solve_vars>>
    /\ debug_written' = "none"
    /\ UNCHANGED <<last_show, ready_solution, locate_vars, h_ops>>

\* Lines 803-807: after the loop, the batch update when shows were collected.
AfterLoop(update_raises) ==
    /\ pc = "loop" /\ idx > Len(short_names)
    /\ IF all_shows_to_update # <<>>
       THEN updates' = Append(updates, all_shows_to_update) /\ exc' = update_raises
       ELSE UNCHANGED <<updates, exc>>
    /\ pc' = "finally"
    /\ UNCHANGED <<short_names, idx, page, cur_url, num_urls, u,
                   all_shows_to_update, visited, cur_failed, late_scrape,
                   quits, handle_vars, solve_vars>>
    /\ debug_written' = "none"
    /\ UNCHANGED <<last_show, ready_solution, locate_vars, h_ops>>

\* The quit placed after the try block instead of in its finally.
FinallyUnlessRaised ==
    /\ pc = "finally"
    /\ quits' = IF exc THEN quits ELSE quits + 1
    /\ pc' = "done"
    /\ UNCHANGED <<short_names, idx, page, cur_url, num_urls, u,
                   all_shows_to_update, visited, cur_failed, late_scrape,
                   updates, exc, handle_vars, solve_vars>>
    /\ debug_written' = "none"
    /\ UNCHANGED <<last_show, ready_solution, locate_vars, h_ops>>

\* Lines 809-811: finally, driver.quit().
Finally ==
    /\ pc = "finally"
    /\ quits' = quits + 1
    /\ pc' = "done"
    /\ UNCHANGED <<short_names, idx, page, cur_url, num_urls, u,
                   all_shows_to_update, visited, cur_failed, late_scrape,
                   updates, exc, handle_vars, solve_vars>>
    /\ debug_written' = "none"
    /\ UNCHANGED <<last_show, ready_solution, locate_vars, h_ops>>

ScrapeIdle ==
    /\ pc = "idle" /\ short_names = <<>> /\ idx = 1 /\ page = NoPage
    /\ cur_url = NoUrl /\ num_urls = 0 /\ u = 1
    /\ all_shows_to_update = <<>> /\ visited = <<>> /\ cur_failed = FALSE
    /\ late_scrape = FALSE /\ updates = <<>> /\ quits = 0 /\ exc = FALSE

\* ------------------------------------------------------------------------
\* Specifications
\* ------------------------------------------------------------------------
\* scrape_site, from the return of get_short_names on.
Init ==
    /\ pc = "loop" /\ short_names \in NameLists /\ idx = 1 /\ page = NoPage
    /\ cur_url = NoUrl /\ num_urls = 0 /\ u = 1
    /\ all_shows_to_update = <<>> /\ visited = <<>> /\ cur_failed = FALSE
    /\ late_scrape = FALSE /\ updates = <<>> /\ quits = 0 /\ exc = FALSE
    /\ HandleIdle
    /\ SolveIdle
    /\ ObserversIdle

Next ==
    \/ \E p \in SearchPages, r \in BOOLEAN : NextName(p, r)
    \/ \E r, m, d \in BOOLEAN : Detect(r, m, d)
    \/ \E raises \in SUBSET (1..NumHeuristics), r \in BOOLEAN :
          HandlePrepare(TRUE, raises, r)
    \/ \E b \in BOOLEAN, tok \in SolveReturns : HandleSolve(b, tok)
    \/ \E r \in BOOLEAN : HandleInject(r)
    \/ \E m, d \in BOOLEAN, p \in SettledPages : HandleAfterInject(m, d, p)
    \/ \E m, d \in BOOLEAN : HandleExcept(m, d)
    \/ HandleDone
    \/ \E n \in 0..MaxUrls, t, r \in BOOLEAN : GetUrls(n, t, r)
    \/ \E p \in ShowPages, e, d, a, c \in BOOLEAN, f \in SeatCounts :
          ShowStep(p, e, d, a, f, c)
    \/ UrlsDone
    \/ \E m, d \in BOOLEAN : Except(m, d)
    \/ \E r \in BOOLEAN : AfterLoop(r)
    \/ Finally

Spec == Init /\ [][Next]_vars

\* The scheduling of scrape_site: the single thread takes its next step.
ScrapeLive == Spec /\ WF_vars(Next)

\* find_turnstile_sitekey alone (lines 218-305), on every page of LocatePages
\* and for every set of strategies that raise.
Locate(raises) ==
    /\ h_pc = "locate"
    /\ h_pc' = "located"
    /\ tried' = Tried(page, raises)
    /\ located' = find_turnstile_sitekey(page, raises)
    /\ loc_raises' = raises
    /\ UNCHANGED <<h_key, h_type, h_token, h_result, inject_raised, injected,
                   inject_url, scrape_vars, solve_vars, ready_solution, h_ops,
                   debug_written, last_show>>

LocateInit ==
    /\ pc = "idle" /\ short_names = <<>> /\ idx = 1 /\ page \in LocatePages
    /\ cur_url = NoUrl /\ num_urls = 0 /\ u = 1
    /\ all_shows_to_update = <<>> /\ visited = <<>> /\ cur_failed = FALSE
    /\ late_scrape = FALSE /\ updates = <<>> /\ quits = 0 /\ exc = FALSE
    /\ h_pc = "locate" /\ h_key = None /\ h_type = None /\ h_token = NullVal
    /\ h_result = FALSE /\ inject_raised = FALSE
    /\ injected = NullVal /\ inject_url = NoUrl
    /\ SolveIdle
    /\ ObserversIdle

LocateNext == \E raises \in SUBSET (1..NumHeuristics) : Locate(raises)

LocateSpec == LocateInit /\ [][LocateNext]_vars

\* solve_captcha alone, for every combination of arguments.
\* The inner loop of scrape_site alone (lines 780-796): the second name of a
\* list is being searched, its search page listed num_urls shows, and the
\* first name left at most one show in the list.
ShowInit ==
    /\ pc = "show" /\ short_names = <<"n1", "n2">> /\ idx = 2
    /\ page = PClean /\ cur_url = SearchUrl("n2")
    /\ num_urls \in 1..MaxUrls /\ u = 1
    /\ all_shows_to_update \in
           {<<>>} \cup {<<Show(ShowUrl("n1", 1), s)>> : s \in SeatCounts \cup {NoneSeats}}
    /\ visited = <<"n1", "n2">> /\ cur_failed = FALSE
    /\ late_scrape = FALSE /\ updates = <<>> /\ quits = 0 /\ exc = FALSE
    /\ HandleIdle
    /\ SolveIdle
    /\ ObserversIdle

ShowNext ==
    \E p \in ShowPages, e, d, a, c \in BOOLEAN, f \in SeatCounts :
        ShowObserved(p, e, d, a, f, c)

ShowSpec == ShowInit /\ [][ShowNext]_vars

SolveInit ==
    /\ sc_pc = "start" /\ site_url \in Urls /\ site_key \in SiteKeys
    /\ captcha_type \in CaptchaTypes /\ task = NoTask /\ attempt_retry = 1
    /\ attempt = 0 /\ task_id = 0 /\ sent = <<>>
    /\ polls = [i \in TaskIds |-> 0] /\ failed = {}
    /\ token = NullVal /\ err = None
    /\ HandleIdle
    /\ ScrapeIdle
    /\ ObserversIdle

SolveNext ==
    \/ SolveStart
    \/ \E resp \in CreateResponses : CreateTask(resp)
    \/ \E status \in PollStatuses, solution \in Solutions : Poll(status, solution)

SolveSpec == SolveInit /\ [][SolveNext]_vars

\* The scheduling of solve_captcha: a call that can take a step takes it.
SolveLive == SolveSpec /\ WF_vars(SolveNext)

\* ------------------------------------------------------------------------
\* Properties
\* ------------------------------------------------------------------------
SolveEnded == sc_pc \in {"returned", "raised"}
TotalPolls == polls[1] + polls[2] + polls[3]

\* C1: when handle_captcha reports success after a token was injected, the
\* page it leaves behind is not a challenge page (the detector is re-run
\* after injection and a page still challenged gives Unsolved).
C1_NoSuccessWhileChallenged ==
    (h_pc = "returned" /\ h_result /\ injected # NullVal)
        => ~is_captcha_page(page)

\* C2: a run of handle_captcha in which solve_captcha raised, or in which
\* the injection script raised, returns False.
C2_SolveOrInjectFailureIsTerminal ==
    (h_pc = "returned" /\ (sc_pc = "raised" \/ inject_raised))
        => h_result = FALSE

\* C3: handle_captcha never ends by raising.
C3_NoExceptionEscapes == h_pc # "raised"

\* C4: when scrape_site is over every name of short_names has been visited
\* once and in order, and no show URL of a name was loaded after that name
\* had failed.
C4_EveryNameVisited ==
    /\ pc = "done" => visited = short_names
    /\ ~late_scrape

\* C5: when solve_captcha raises because submissions failed or accepted
\* tasks timed out, exactly max_retries createTask requests were made.
C5_ExactlyThreeSubmissions ==
    (sc_pc = "raised" /\ err \in {"transport", "create_error", "no_task_id", "timeout"})
        => Len(sent) = max_retries

C5_Witness ==
    /\ sc_pc = "raised" /\ err = "timeout" /\ Len(sent) = max_retries
    /\ polls[1] = 0 /\ polls[2] = max_attempts

\* C6: a call of solve_captcha makes at most max_retries createTask requests
\* and at most max_attempts getTaskResult requests per task, and it ends:
\* it returns or raises.
C6_Terminates ==
    /\ [](/\ Len(sent) <= max_retries
          /\ \A i \in TaskIds : polls[i] <= max_attempts
          /\ TotalPolls <= max_retries * max_attempts)
    /\ <>SolveEnded

C6_Witness ==
    /\ sc_pc = "raised"
    /\ TotalPolls = max_retries * max_attempts

\* C7: every getTaskResult request is for the task id of the latest
\* createTask submission and that id has poll budget left; a task id whose
\* budget is used up is not polled again.
C7_PollingNotRestarted ==
    [][\A i \in TaskIds :
          polls'[i] # polls[i] =>
              /\ polls[i] < max_attempts
              /\ i = task_id
              /\ i = Len(sent)]_vars

C7_Witness ==
    /\ polls[1] = max_attempts
    /\ task_id = 2 /\ polls[2] > 0

\* C8: once the provider has reported a terminal error for a task id, no
\* further getTaskResult request is made for that id.
C8_NoPollAfterTerminalError ==
    [][\A i \in failed : polls'[i] = polls[i]]_vars

\* C9: called with the managed-challenge kind, or with the Turnstile or
\* reCAPTCHA kind and no sitekey, solve_captcha builds the generic keyless
\* task and does not raise before the first request.
C9_KeylessFallback ==
    (/\ sc_pc # "start"
     /\ \/ captcha_type = "cloudflare_challenge"
        \/ captcha_type \in {"recaptcha", "turnstile", "Turnstile"} /\ ~Truthy(site_key))
        => /\ task = [type |-> "AntiCloudflareTaskProxyLess", websiteURL |-> site_url]
           /\ err # "fail_fast"

\* C10: with a sitekey, kind reCAPTCHA always submits the reCAPTCHA-v2
\* proxyless task and kind Turnstile the Turnstile proxyless task, each with
\* the key, and every retry re-sends the descriptor of the first submission.
C10_TaskTypeByKind ==
    \A i \in 1..Len(sent) :
        /\ (captcha_type = "recaptcha" /\ Truthy(site_key)) =>
               sent[i] = [type |-> "NoCaptchaTaskProxyless",
                          websiteURL |-> site_url, websiteKey |-> site_key]
        /\ (captcha_type \in {"turnstile", "Turnstile"} /\ Truthy(site_key)) =>
               sent[i] = [type |-> "AntiTurnstileTaskProxyLess",
                          websiteURL |-> site_url, websiteKey |-> site_key]
        /\ sent[i] = sent[1]

C10_Witness ==
    /\ Len(sent) = max_retries
    /\ captcha_type = "Turnstile" /\ Truthy(site_key)

KindField(ct) ==
    IF ct \in {"recaptcha", None} THEN "gRecaptchaResponse"
    ELSE IF ct \in {"turnstile", "Turnstile"} THEN "cfTurnstileResponse"
    ELSE None

\* Value of field k of the solution s, NullVal when s has no such field.
FieldValue(s, k) ==
    IF \E i \in 1..Len(s) : s[i].k = k
    THEN s[CHOOSE i \in 1..Len(s) : s[i].k = k].v
    ELSE NullVal

\* C12: the token solve_captcha returns is the field of the kind being
\* solved when the solution has it, else the "token" field when the solution
\* has it, else the first string longer than the threshold.
C12_KindFieldFirst ==
    sc_pc = "returned" =>
        token = IF \E i \in 1..Len(ready_solution) :
                      ready_solution[i].k = KindField(captcha_type)
                THEN FieldValue(ready_solution, KindField(captcha_type))
                ELSE IF \E i \in 1..Len(ready_solution) : ready_solution[i].k = "token"
                THEN FieldValue(ready_solution, "token")
                ELSE FirstLong(ready_solution)

\* C13: a "ready" solution whose "token" field is non-empty and whose other
\* fields are all unlisted makes solve_captcha return the value of "token".
C13_GenericTokenReturned ==
    (/\ TruthyVal(FieldValue(ready_solution, "token"))
     /\ \A i \in 1..Len(ready_solution) :
            ready_solution[i].k \notin {"gRecaptchaResponse", "cfTurnstileResponse"})
        => /\ sc_pc = "returned"
           /\ token = FieldValue(ready_solution, "token")

C13_Witness ==
    /\ sc_pc = "returned" /\ token = TokShort
    /\ Len(ready_solution) = 2
    /\ captcha_type = "cloudflare_challenge"

\* A reCAPTCHA frame: an iframe and the word recaptcha in the markup.
HasRecaptchaFrame(p) ==
    "iframe" \in p.html /\ ({"recaptcha", "g-recaptcha"} \cap p.html) # {}

\* No challenge marker at all in the markup.
NoMarker(p) ==
    /\ ~HasRecaptchaFrame(p)
    /\ ({"g-recaptcha", "cf-challenge", "verifying"} \cap p.html) = {}

InterstitialTitle(p) == p.title \in {"Just a moment...", "Just a moment"}

\* C14: from the classification of a page with the interstitial title and no
\* marker, scrape_site does not go straight on to scraping; it waits and
\* classifies a new snapshot first.
C14_SoftInterstitialRechecked ==
    [][(pc = "detect" /\ NoMarker(page) /\ InterstitialTitle(page))
          => pc' # "urls"]_vars

\* C15: a page with a reCAPTCHA frame is classified as challenged, and the
\* kind handle_captcha passes to solve_captcha for it is the reCAPTCHA kind.
C15_RecaptchaKindPassedOn ==
    (pc \in {"detect", "handle"} /\ HasRecaptchaFrame(page))
        => /\ is_captcha_page(page)
           /\ h_pc = "solve" => h_type = "recaptcha"

\* C16: from the classification of a page with no marker and a title other
\* than the interstitial one, scrape_site goes on to scraping (or to its
\* handler when the driver raised) and handle_captcha is not entered.
C16_CleanPageScraped ==
    [][(pc = "detect" /\ NoMarker(page) /\ ~InterstitialTitle(page))
          => /\ pc' \in {"urls", "except"}
             /\ h_pc' = "idle"]_vars

C16_Witness ==
    /\ pc = "urls" /\ h_pc = "idle"
    /\ page.html = {"iframe"} /\ page.title = "Shows"

\* C17: a call of is_captcha_page writes no artifact.
C17_DetectorWritesNothing ==
    [][pc = "detect" => debug_written' = "none"]_vars

\* The strategies that yield a key on page p when those in raises throw.
Hits(p, raises) ==
    {i \in 1..NumHeuristics : i \notin raises /\ Truthy(Heuristic(i, p))}

Lowest(S) == CHOOSE i \in S : \A j \in S : i <= j

\* C18: find_turnstile_sitekey returns the key of the lowest-numbered
\* strategy that yields one without raising, having attempted exactly the
\* strategies up to it; with a data-sitekey attribute and a miss of
\* strategy 1 the attribute is returned and strategy 3 is not attempted.
C18_FirstHeuristicWins ==
    h_pc = "located" =>
        /\ IF Hits(page, loc_raises) = {}
           THEN located = None /\ tried = 1..NumHeuristics
           ELSE /\ located = Heuristic(Lowest(Hits(page, loc_raises)), page)
                /\ tried = 1..Lowest(Hits(page, loc_raises))
        /\ (/\ Truthy(page.data_sitekey)
            /\ 1 \notin Hits(page, loc_raises)
            /\ 2 \notin loc_raises)
               => located = page.data_sitekey /\ 3 \notin tried

C18_Witness ==
    /\ h_pc = "located"
    /\ page.iframe_k = "key1" /\ 1 \in loc_raises
    /\ page.source_key = "key3"
    /\ located = "key2" /\ tried = {1, 2}

C20_ValidationTriggered ==
    (h_pc = "returned" /\ h_result /\ injected # NullVal)
        => \E i, j \in 1..Len(h_ops) :
              /\ i < j
              /\ h_ops[i] = "inject"
              /\ h_ops[j] \in {"submit", "reload"}

\* The known field of solution s that comes first in the order of lines
\* 412-417, or "" when s holds none of them.
FirstKnown(s) ==
    IF \E i \in 1..Len(s) : s[i].k = "gRecaptchaResponse" THEN "gRecaptchaResponse"
    ELSE IF \E i \in 1..Len(s) : s[i].k = "token" THEN "token"
    ELSE IF \E i \in 1..Len(s) : s[i].k = "cfTurnstileResponse" THEN "cfTurnstileResponse"
    ELSE ""

\* A "ready" answer was read whose solution is empty or whose first known
\* field holds a falsy value.
ReadyUnusable ==
    /\ ready_solution # NoAnswer
    /\ \/ ready_solution = <<>>
       \/ /\ FirstKnown(ready_solution) # ""
          /\ ~TruthyVal(FieldValue(ready_solution, FirstKnown(ready_solution)))

\* C24: when a "ready" answer carries an empty solution, or its first known
\* field holds an empty value, solve_captcha has raised in that very step
\* without a token, and no createTask or getTaskResult request follows,
\* whatever retries remain and whatever the other fields hold.
C24_ReadyWithoutTokenRaises ==
    /\ [](ReadyUnusable =>
            /\ sc_pc = "raised" /\ err = "no_token" /\ token = NullVal)
    /\ [][ReadyUnusable => (sent' = sent /\ polls' = polls)]_vars

C24_Witness ==
    /\ sc_pc = "raised" /\ err = "no_token"
    /\ ready_solution = <<Field("gRecaptchaResponse", EmptyStr), Field("token", TokB)>>
    /\ attempt_retry = 1 /\ Len(sent) = 1 /\ TotalPolls = 1

\* How often handle_captcha has done x in its current run.
Count(ops, x) == Cardinality({i \in 1..Len(ops) : ops[i] = x})

\* C21: in a run of handle_captcha solve_captcha is called at most once and
\* its token is written into the page at most once; the page written into
\* is the one the driver holds, its URL is the one read at the start of the
\* run and sent as the task's target, and the value written is the token of
\* that run's call; scrape_site loads no URL between the read and the write.
C21_TokenBoundToItsPage ==
    /\ [](/\ Count(h_ops, "solve") <= 1
          /\ Count(h_ops, "inject") <= 1
          /\ injected # NullVal => inject_url = cur_url
          /\ (pc = "handle" /\ injected # NullVal) =>
                 /\ sc_pc = "returned" /\ injected = token
                 /\ inject_url = site_url
                 /\ task.websiteURL = inject_url)
    /\ [][(injected' # injected /\ injected' # NullVal) =>
             /\ pc = "handle" /\ h_pc = "inject"
             /\ Count(h_ops, "inject") = 0
             /\ injected' = token /\ sc_pc = "returned"
             /\ site_url = cur_url /\ cur_url' = cur_url]_vars
    /\ [][(pc = "handle" /\ pc' = "handle") => cur_url' = cur_url]_vars

C21_Witness ==
    /\ pc = "handle" /\ h_pc = "returned" /\ h_result
    /\ idx = 2 /\ injected = TokB
    /\ inject_url = SearchUrl("n2") /\ task.websiteURL = SearchUrl("n2")

\* handle_captcha has read the title and chosen the kind, and the page is
\* still the one it read.
KindChosen ==
    /\ pc = "handle"
    /\ h_pc \in {"solve", "inject", "after_inject", "except"}
    /\ Count(h_ops, "title") = 1

\* A sitekey was located and the lower-cased title lacks "just a moment...".
KeyedCase ==
    Truthy(located) /\ ~TitleHas(Lower(page.title), "just a moment...")

C22_QuitOnceByCaller ==
    /\ [](quits <= 1 /\ (quits = 1 <=> pc = "done"))
    /\ [][quits' # quits =>
             /\ pc = "finally" /\ h_pc = "idle" /\ sc_pc = "idle"
             /\ quits' = quits + 1]_vars
    /\ [][quits = 0]_vars
    /\ <>(quits = 1)

C22_Witness ==
    /\ pc = "done" /\ quits = 1 /\ exc
    /\ idx = 1 /\ Len(short_names) = 2

\* The show URL just processed has a record in the update list.
JustAdded == \E i \in 1..Len(all_shows_to_update) : all_shows_to_update[i].url = cur_url

\* The record of the show URL just processed.
JustAddedShow ==
    all_shows_to_update[CHOOSE i \in 1..Len(all_shows_to_update) :
                            all_shows_to_update[i].url = cur_url]

\* C26: after an iteration of the inner loop the show is in the update list
\* exactly when its name was extracted and select_area did not raise; when
\* the count of seats failed its record holds available_seats = 0, and when
\* the count worked it holds the number counted.
C26_AddedIffNamedAndAreaSelected ==
    (pc = "show" /\ u > 1) =>
        /\ JustAdded <=> (last_show.name /\ ~last_show.area_raises)
        /\ JustAdded =>
               JustAddedShow.available_seats =
                   IF last_show.count_raises THEN 0 ELSE last_show.found

\* C25: update_appsheet_batch is called at most once, after the last name,
\* with a list that is not empty and is the whole list collected; the list
\* only grows while the names are searched; a run that collected nothing
\* ends without the call.
C25_OneUpdateAfterTheLoop ==
    /\ [](/\ Len(updates) <= 1
          /\ updates # <<>> =>
                 /\ idx > Len(short_names)
                 /\ pc \in {"finally", "done"}
                 /\ updates[1] = all_shows_to_update
                 /\ all_shows_to_update # <<>>
          /\ (pc = "done" /\ all_shows_to_update = <<>>) => updates = <<>>)
    /\ [][/\ Len(all_shows_to_update') >= Len(all_shows_to_update)
          /\ SubSeq(all_shows_to_update', 1, Len(all_shows_to_update))
                 = all_shows_to_update]_vars
    /\ [][updates' # updates => (pc = "loop" /\ idx > Len(short_names))]_vars

C25_Witness ==
    /\ pc = "done" /\ Len(updates) = 1 /\ Len(updates[1]) = 2
    /\ updates[1][1].url.name = "n1"
    /\ updates[1][2].url.name = "n2"
====
